---- MODULE Spec2Model ----
(***************************************************************************)
(* Tabular SARSA agent (SARSAAgent, src/agents/rl_agent.py) for the        *)
(* two-player attacker/defender game.  The environment (IdsGameEnv) is an  *)
(* opaque collaborator: its reset/step/legality answers are drawn          *)
(* nondeterministically from a small environment instance.                 *)
(*                                                                         *)
(* Numbers.  Q-values, rewards, alpha, gamma, epsilon and the random draws *)
(* are exact rationals <<numerator, denominator>> in lowest terms.  For    *)
(* the dyadic values used here the float arithmetic of the code is exact,  *)
(* so the model computes what the code computes.  float("-inf") is the     *)
(* pair <<-1, 0>>.                                                         *)
(***************************************************************************)
EXTENDS Integers, Sequences, FiniteSets, TLC

VARIABLES
    config,       \* QAgentConfig: the hyperparameters read by the agent
    env,          \* IdsGameEnv: what the agent can observe of the environment
    Q_attacker,   \* self.Q_attacker[s][a]
    Q_defender,   \* self.Q_defender[s][a]
    pc,           \* position of the running method
    tr,           \* locals of train()
    ev,           \* locals of eval()
    error,        \* the exception that ended the run, or "none"
    events,       \* history: periodic actions performed by train(), in order
    lookups,      \* history: state_to_idx lookups made by the last step
    primes,       \* history: next actions used by the last step_and_update
    env_stepped,  \* history: whether env.step has been called
    call          \* arguments and outcome of a direct get_action/sarsa_update call

vars == <<config, env, Q_attacker, Q_defender, pc, tr, ev, error, events,
          lookups, primes, env_stepped, call>>

-----------------------------------------------------------------------------
(* Bounds of the model *)

NumAttackActions == 3
NumDefenseActions == 2
NumStates == 2
MaxKeyVal == 1
MaxSteps == 2
MaxEpisodes == 1
MaxEvalEpisodes == 1
MaxHarnessEpisodes == 3
MaxFreq == 2

-----------------------------------------------------------------------------
(* Exact rational arithmetic *)

RECURSIVE GCD(_, _)
GCD(a, b) == IF b = 0 THEN a ELSE GCD(b, a % b)

Abs(n) == IF n < 0 THEN -n ELSE n

Norm(n, d) == LET g == GCD(Abs(n), d) IN <<n \div g, d \div g>>

Rat(n) == <<n, 1>>
Half == <<1, 2>>
Zero == <<0, 1>>
One == <<1, 1>>

RAdd(x, y) == Norm(x[1] * y[2] + y[1] * x[2], x[2] * y[2])
RSub(x, y) == Norm(x[1] * y[2] - y[1] * x[2], x[2] * y[2])
RMul(x, y) == Norm(x[1] * y[1], x[2] * y[2])
RLt(x, y) == x[1] * y[2] < y[1] * x[2]

NegInf == <<-1, 0>>
\* a comparison that also accepts equal values
GtOrEqual(x, v) == IF v = NegInf THEN TRUE ELSE ~RLt(x, v)

\* python: x > v, where v is a finite value or float("-inf") and x is finite
Gt(x, v) == IF v = NegInf THEN TRUE ELSE RLt(v, x)

Min(a, b) == IF a < b THEN a ELSE b

-----------------------------------------------------------------------------
(* The environment's action spaces and the agent's tables *)

AttackActions == 0 .. (NumAttackActions - 1)
DefenseActions == 0 .. (NumDefenseActions - 1)

\* The sentinel the greedy loop starts from (float("-inf") as an action).
NoAction == -1

\* Length of a state key: one observation, or both when fully observed.
KeyLen(fully_observed) == IF fully_observed THEN 2 ELSE 1

\* env._build_state_to_idx_map(): every key has the same length; keys are
\* numbered in positional order.
StateKeys(fully_observed) == [1 .. KeyLen(fully_observed) -> 0 .. MaxKeyVal]

RECURSIVE KeyIndex(_, _)
KeyIndex(t, n) == IF n = 0 THEN 0 ELSE KeyIndex(t, n - 1) * (MaxKeyVal + 1) + t[n]

state_to_idx == [t \in StateKeys(env.fully_observed) |-> KeyIndex(t, Len(t))]

\* max over all elements of all keys
max_value ==
    CHOOSE m \in 0 .. MaxKeyVal :
        /\ \E t \in DOMAIN state_to_idx : \E i \in DOMAIN t : t[i] = m
        /\ \A t \in DOMAIN state_to_idx : \A i \in DOMAIN t : t[i] <= m

num_states_full == Cardinality(DOMAIN state_to_idx)

AttackerStates == IF config.tab_full_state_space THEN 0 .. (num_states_full - 1)
                  ELSE 0 .. (NumStates - 1)
DefenderStates == IF config.tab_full_state_space THEN 0 .. (num_states_full - 1)
                  ELSE {0}

\* np.zeros((rows, actions)) for both tables
ZeroTable(states, actions) == [s \in states |-> [a \in actions |-> Zero]]

\* env.get_attacker_node_from_observation(obs): the attacker's node, a row of
\* the attacker table
get_attacker_node_from_observation(obs) == Min(obs[1], NumStates - 1)

-----------------------------------------------------------------------------
(* get_action *)

Return(a, branch) == [kind |-> "return", value |-> a, exc |-> "none", branch |-> branch]
Raise(e, branch) == [kind |-> "raise", value |-> NoAction, exc |-> e, branch |-> branch]

\* every action of the role, legal or not
unfiltered_actions(e, attacker) == IF attacker THEN AttackActions ELSE DefenseActions

\* legal_actions = list(filter(is_*_legal, actions)), in environment e
legal_actions(e, attacker) == IF attacker THEN {a \in AttackActions : a \in e.legal_attack}
                              ELSE {a \in DefenseActions : a \in e.legal_defense}

\* np.random.choice(legal_actions): any element; ValueError on an empty list
np_random_choice(legal) == IF legal = {} THEN {Raise("ValueError", "explore")}
                           ELSE {Return(a, "explore") : a \in legal}

\* the condition of the exploration branch for the two draws u1, u2
Explores(eval, u1, u2) ==
    \/ (RLt(u1, config.epsilon) /\ ~eval)
    \/ (eval /\ RLt(u2, config.eval_epsilon))

\* the for-loop over range(len(row)): state <<max_legal_action_value, max_legal_action>>
RECURSIVE GreedyLoop(_, _, _, _, _)
GreedyLoop(row, legal, i, best_value, best) ==
    IF i \notin DOMAIN row THEN <<best_value, best>>
    ELSE IF i \in legal /\ Gt(row[i], best_value)
         THEN GreedyLoop(row, legal, i + 1, row[i], i)
         ELSE GreedyLoop(row, legal, i + 1, best_value, best)

\* the greedy choice without the final check of the sentinels
GreedyUnchecked(row, legal) ==
    Return(GreedyLoop(row, legal, 0, NegInf, NoAction)[2], "greedy")

Greedy(row, legal) ==
    LET r == GreedyLoop(row, legal, 0, NegInf, NoAction)
    IN  IF r[2] = NoAction \/ r[1] = NegInf
        THEN Raise("AssertionError: Error when selecting action greedily according to the Q-function", "greedy")
        ELSE Return(r[2], "greedy")

\* The set of outcomes of get_action(s, eval, attacker) over the random draws,
\* with the environment in state e.
Draws == {Zero, Half}

get_action(e, s, eval, attacker) ==
    LET legal == legal_actions(e, attacker)
        row == IF attacker THEN Q_attacker[s] ELSE Q_defender[s]
    IN  UNION { IF Explores(eval, u[1], u[2]) THEN np_random_choice(legal)
                ELSE {Greedy(row, legal)} : u \in Draws \X Draws }

-----------------------------------------------------------------------------
(* sarsa_update *)

\* an update that moves towards the target without the - Q[s][a] term
NewValueNoDifference(Q, s, a, r, s_prime, a_prime) ==
    RAdd(Q[s][a], RMul(config.alpha, RAdd(r, RMul(config.gamma, Q[s_prime][a_prime]))))

\* the right-hand side of the assignment
NewValue(Q, s, a, r, s_prime, a_prime) ==
    RAdd(Q[s][a],
         RMul(config.alpha,
              RSub(RAdd(r, RMul(config.gamma, Q[s_prime][a_prime])), Q[s][a])))

\* an update that writes the entry of the next state and action
sarsa_update_next_entry(QA, QD, s, a, r, s_prime, a_prime, attacker) ==
    IF attacker
    THEN <<[QA EXCEPT ![s_prime][a_prime] = NewValue(QA, s, a, r, s_prime, a_prime)], QD>>
    ELSE <<QA, [QD EXCEPT ![s_prime][a_prime] = NewValue(QD, s, a, r, s_prime, a_prime)]>>

\* returns the two tables after the call
sarsa_update(QA, QD, s, a, r, s_prime, a_prime, attacker) ==
    IF attacker
    THEN <<[QA EXCEPT ![s][a] = NewValue(QA, s, a, r, s_prime, a_prime)], QD>>
    ELSE <<QA, [QD EXCEPT ![s][a] = NewValue(QD, s, a, r, s_prime, a_prime)]>>

-----------------------------------------------------------------------------
(* The environment instance: the answers env.reset and env.step can give *)

EnvState(a_obs, d_obs, legal_a, legal_d) ==
    [attacker_obs |-> a_obs, defender_obs |-> d_obs,
     legal_attack |-> legal_a, legal_defense |-> legal_d]

\* a game with positions in which an action is illegal, a player has no
\* legal action, and an observation exceeds max_value
RichEnv ==
    [initial |-> { EnvState(<<0>>, <<1>>, AttackActions, DefenseActions) },
     states |-> { EnvState(<<0>>, <<1>>, AttackActions, DefenseActions),
                  EnvState(<<1>>, <<2>>, {1}, {}),
                  EnvState(<<2>>, <<0>>, {}, {0}) },
     rewards |-> { <<Rat(1), Rat(-1)>> }]

\* a game with one position, every action legal
PlainEnv ==
    [initial |-> { EnvState(<<0>>, <<1>>, AttackActions, DefenseActions) },
     states |-> { EnvState(<<0>>, <<1>>, AttackActions, DefenseActions) },
     rewards |-> { <<Rat(1), Rat(-1)>> }]

Observe(x, t) ==
    [fully_observed |-> env.fully_observed,
     attacker_obs |-> x.attacker_obs, defender_obs |-> x.defender_obs,
     legal_attack |-> x.legal_attack, legal_defense |-> x.legal_defense,
     t |-> t]

\* env.reset(): the possible environments after the call
env_reset(E) == { Observe(x, 0) : x \in E.initial }

\* env.step(action): the possible (environment, reward, done) after the call;
\* the game ends at the latest after MaxSteps steps
env_step(E, action) ==
    { [env |-> Observe(x, env.t + 1), reward |-> r, done |-> d] :
        x \in E.states, r \in E.rewards,
        d \in (IF env.t + 1 >= MaxSteps THEN {TRUE} ELSE BOOLEAN) }

-----------------------------------------------------------------------------
(* State index and action of each role (train 190-209, step_and_update     *)
(* 118-141 and eval 378-397 hold the same code)                            *)

\* t = tuple(obs.astype(int).flatten().tolist()); t = tuple(map(min(x, max_value), t))
ClampedKey(obs) == [i \in 1 .. Len(obs) |-> Min(obs[i], max_value)]

Lookup(role, key, raw_a, raw_d) ==
    [role |-> role, key |-> key, attacker_obs |-> raw_a, defender_obs |-> raw_d]

RoleResult(exc, obs, s_idx, act, lk) ==
    [exc |-> exc, obs |-> obs, s_idx |-> s_idx, act |-> act, lookups |-> lk]

\* the attacker's block; obs is the local attacker_obs after the block
AttackerPart(e, attacker_obs, defender_obs, eval) ==
    IF ~config.attacker THEN {RoleResult("none", attacker_obs, 0, 0, <<>>)}
    ELSE
      LET full == config.tab_full_state_space
          obs == IF full /\ env.fully_observed THEN attacker_obs \o defender_obs
                 ELSE attacker_obs
          t == ClampedKey(obs)
          lk == IF full THEN <<Lookup("attacker", t, attacker_obs, defender_obs)>> ELSE <<>>
      IN  IF full /\ t \notin DOMAIN state_to_idx
          THEN {RoleResult("KeyError", obs, 0, 0, lk)}
          ELSE LET s_idx == IF full THEN state_to_idx[t]
                            ELSE get_attacker_node_from_observation(attacker_obs)
               IN  { RoleResult(o.exc, obs, s_idx, o.value, lk) :
                       o \in get_action(e, s_idx, eval, TRUE) }

\* the defender's block; attacker_obs is the local as the attacker's block left it
DefenderPart(e, attacker_obs, defender_obs, raw_attacker_obs, eval) ==
    IF ~config.defender THEN {RoleResult("none", defender_obs, 0, 0, <<>>)}
    ELSE
      LET full == config.tab_full_state_space
          obs == IF full /\ env.fully_observed THEN attacker_obs \o defender_obs
                 ELSE defender_obs
          t == ClampedKey(obs)
          lk == IF full THEN <<Lookup("defender", t, raw_attacker_obs, defender_obs)>> ELSE <<>>
      IN  IF full /\ t \notin DOMAIN state_to_idx
          THEN {RoleResult("KeyError", obs, 0, 0, lk)}
          ELSE LET s_idx == IF full THEN state_to_idx[t] ELSE 0
               IN  { RoleResult(o.exc, obs, s_idx, o.value, lk) :
                       o \in get_action(e, s_idx, eval, FALSE) }

\* both blocks in sequence; an exception in the attacker's block skips the defender's
SelectActions(e, attacker_obs, defender_obs, eval) ==
    UNION { IF a.exc # "none"
            THEN {[exc |-> a.exc, raised_in |-> "attacker",
                   s_idx_a |-> a.s_idx, s_idx_d |-> 0,
                   action |-> <<a.act, 0>>, lookups |-> a.lookups]}
            ELSE {[exc |-> d.exc,
                   raised_in |-> IF d.exc = "none" THEN "none" ELSE "defender",
                   s_idx_a |-> a.s_idx, s_idx_d |-> d.s_idx,
                   action |-> <<a.act, d.act>>, lookups |-> a.lookups \o d.lookups] :
                     d \in DefenderPart(e, a.obs, defender_obs, attacker_obs, eval)} :
            a \in AttackerPart(e, attacker_obs, defender_obs, eval) }

-----------------------------------------------------------------------------
(* State after construction *)

ConfigOf(att, def, full, n, lf, ef, cf, ee, eps, eeps, alpha, gamma) ==
    [attacker |-> att, defender |-> def, tab_full_state_space |-> full,
     num_episodes |-> n, train_log_frequency |-> lf, eval_frequency |-> ef,
     checkpoint_freq |-> cf, eval_episodes |-> ee,
     epsilon |-> eps, eval_epsilon |-> eeps, alpha |-> alpha, gamma |-> gamma]

TrainLocals ==
    [episode |-> 0, attacker_obs |-> <<>>, defender_obs |-> <<>>,
     s_idx_a |-> 0, s_idx_d |-> 0, action |-> <<0, 0>>]

EvalLocals ==
    [train_episode |-> 0, log |-> TRUE, episode |-> 0,
     attacker_obs |-> <<>>, defender_obs |-> <<>>,
     s_idx_a |-> 0, s_idx_d |-> 0, action |-> <<0, 0>>, ret |-> "none"]

NoPrimes == [valid |-> FALSE, a_prime |-> 0, d_prime |-> 0]
NoCall == [fn |-> "none"]

\* SARSAAgent.__init__ for a configuration of cfgs and an environment of E
Construct(cfgs, E, start) ==
    /\ config \in cfgs
    /\ env \in { [fully_observed |-> fo,
                  attacker_obs |-> x.attacker_obs, defender_obs |-> x.defender_obs,
                  legal_attack |-> x.legal_attack, legal_defense |-> x.legal_defense,
                  t |-> 0] :
                 x \in E.initial,
                 fo \in (IF config.tab_full_state_space THEN BOOLEAN ELSE {FALSE}) }
    /\ Q_attacker = ZeroTable(AttackerStates, AttackActions)
    /\ Q_defender = ZeroTable(DefenderStates, DefenseActions)
    /\ pc = start
    /\ tr = TrainLocals
    /\ ev = EvalLocals
    /\ error = "none"
    /\ events = <<>>
    /\ lookups = <<>>
    /\ primes = NoPrimes
    /\ env_stepped = FALSE
    /\ call = NoCall

-----------------------------------------------------------------------------
(* train *)

\* a check that is true when both roles are configured
BothRolesConfigured == config.attacker /\ config.defender

\* line 180: not self.config.attacker and not self.config.defender
NoRoleConfigured == ~config.attacker /\ ~config.defender

\* a periodic action that is due one episode late
DueAfter(episode, frequency) == (episode + 1) % frequency = 0

\* lines 240, 256, 260: episode % frequency == 0
Due(episode, frequency) == episode % frequency = 0

RaiseError(e) ==
    /\ pc' = "raised"
    /\ error' = e

\* lines 154-169: reset the environment, first observations
TrainBegin(E) ==
    /\ pc = "train"
    /\ \E e \in env_reset(E) :
         /\ env' = e
         /\ tr' = [TrainLocals EXCEPT !.attacker_obs = e.attacker_obs,
                                      !.defender_obs = e.defender_obs]
    /\ pc' = IF 0 < config.num_episodes THEN "t_select" ELSE "final_eval"
    /\ lookups' = <<>>
    /\ UNCHANGED <<config, Q_attacker, Q_defender, ev, error, events, primes,
                   env_stepped, call>>

\* lines 176-211: one pass of the while body up to the choice of the joint action
TrainSelect ==
    /\ pc = "t_select"
    /\ IF NoRoleConfigured
       THEN /\ RaiseError("AssertionError: Must specify whether training an attacker agent or defender agent")
            /\ UNCHANGED <<tr, lookups>>
       ELSE \E p \in SelectActions(env, tr.attacker_obs, tr.defender_obs, FALSE) :
              /\ lookups' = p.lookups
              /\ IF p.exc # "none"
                 THEN RaiseError(p.exc) /\ UNCHANGED tr
                 ELSE /\ tr' = [tr EXCEPT !.s_idx_a = p.s_idx_a, !.s_idx_d = p.s_idx_d,
                                          !.action = p.action]
                      /\ pc' = "t_step"
                      /\ UNCHANGED error
    /\ UNCHANGED <<config, env, Q_attacker, Q_defender, ev, events, primes,
                   env_stepped, call>>

\* step_and_update (lines 113-146) and the rest of the while body (lines 214-223)
StepAndUpdate(E) ==
    /\ pc = "t_step"
    /\ \E o \in env_step(E, tr.action) :
       \E p \in SelectActions(o.env, o.env.attacker_obs, o.env.defender_obs, FALSE) :
         LET after_a == IF config.attacker /\ p.raised_in # "attacker"
                        THEN sarsa_update(Q_attacker, Q_defender, tr.s_idx_a, tr.action[1],
                                          o.reward[1], p.s_idx_a, p.action[1], TRUE)
                        ELSE <<Q_attacker, Q_defender>>
             after_d == IF config.defender /\ p.raised_in = "none"
                        THEN sarsa_update(after_a[1], after_a[2], tr.s_idx_d, tr.action[2],
                                          o.reward[2], p.s_idx_d, p.action[2], FALSE)
                        ELSE after_a
         IN  /\ env' = o.env
             /\ env_stepped' = TRUE
             /\ Q_attacker' = after_d[1]
             /\ Q_defender' = after_d[2]
             /\ lookups' = p.lookups
             /\ IF p.exc # "none"
                THEN RaiseError(p.exc) /\ UNCHANGED <<tr, primes>>
                ELSE /\ tr' = [TrainLocals EXCEPT !.episode = tr.episode,
                                                  !.attacker_obs = o.env.attacker_obs,
                                                  !.defender_obs = o.env.defender_obs]
                     /\ primes' = IF o.done THEN NoPrimes
                                  ELSE [valid |-> TRUE, a_prime |-> p.action[1],
                                        d_prime |-> p.action[2]]
                     /\ pc' = IF o.done THEN "ep_end" ELSE "t_select"
                     /\ UNCHANGED error
    /\ UNCHANGED <<config, ev, events, call>>

Event(kind, episode, log) == [kind |-> kind, episode |-> episode, log |-> log]

\* eval(train_episode, log): the call; control returns to ret
CallEval(train_episode, log, ret) ==
    /\ ev' = [EvalLocals EXCEPT !.train_episode = train_episode, !.log = log, !.ret = ret]
    /\ pc' = "eval"

\* lines 225-257: episode metrics, periodic logging, periodic evaluation
EpisodeEnd ==
    /\ pc = "ep_end"
    /\ LET logged == IF Due(tr.episode, config.train_log_frequency)
                     THEN Append(events, Event("log", tr.episode, TRUE))
                     ELSE events
       IN  IF Due(tr.episode, config.eval_frequency)
           THEN /\ events' = Append(logged, Event("eval", tr.episode, TRUE))
                /\ CallEval(tr.episode, TRUE, "checkpoint")
           ELSE /\ events' = logged
                /\ pc' = "checkpoint"
                /\ UNCHANGED ev
    /\ lookups' = <<>>
    /\ UNCHANGED <<config, env, Q_attacker, Q_defender, tr, error, primes,
                   env_stepped, call>>

\* self.anneal_epsilon(): epsilon stays or decreases
Epsilons == {Zero, Half}

anneal_epsilon == { e \in Epsilons : ~RLt(config.epsilon, e) }

\* lines 259-275: periodic checkpoint, reset for the next episode, annealing
Checkpoint(E) ==
    /\ pc = "checkpoint"
    /\ events' = IF Due(tr.episode, config.checkpoint_freq)
                 THEN Append(events, Event("checkpoint", tr.episode, TRUE))
                 ELSE events
    /\ \E e \in env_reset(E) :
         /\ env' = e
         /\ tr' = [TrainLocals EXCEPT !.episode = tr.episode + 1,
                                      !.attacker_obs = e.attacker_obs,
                                      !.defender_obs = e.defender_obs]
    /\ \E eps \in anneal_epsilon : config' = [config EXCEPT !.epsilon = eps]
    /\ pc' = IF tr.episode + 1 < config.num_episodes THEN "t_select" ELSE "final_eval"
    /\ lookups' = <<>>
    /\ UNCHANGED <<Q_attacker, Q_defender, ev, error, primes, env_stepped, call>>

\* lines 277-280: the final evaluation
FinalEval ==
    /\ pc = "final_eval"
    /\ events' = Append(events, Event("eval", config.num_episodes, FALSE))
    /\ CallEval(config.num_episodes, FALSE, "final_save")
    /\ lookups' = <<>>
    /\ UNCHANGED <<config, env, Q_attacker, Q_defender, tr, error, primes,
                   env_stepped, call>>

\* lines 282-296: log the state values, save the Q-table and the game data
FinalSave ==
    /\ pc = "final_save"
    /\ events' = Append(events, Event("save", config.num_episodes, FALSE))
    /\ pc' = "done"
    /\ lookups' = <<>>
    /\ UNCHANGED <<config, env, Q_attacker, Q_defender, tr, ev, error, primes,
                   env_stepped, call>>

-----------------------------------------------------------------------------
(* eval *)

\* lines 306-345: nothing to do without eval episodes; else reset the environment
EvalBegin(E) ==
    /\ pc = "eval"
    /\ IF config.eval_episodes < 1
       THEN /\ pc' = ev.ret
            /\ ev' = EvalLocals
            /\ UNCHANGED env
       ELSE /\ \E e \in env_reset(E) :
                 /\ env' = e
                 /\ ev' = [ev EXCEPT !.attacker_obs = e.attacker_obs,
                                     !.defender_obs = e.defender_obs]
            /\ pc' = "e_select"
    /\ lookups' = <<>>
    /\ UNCHANGED <<config, Q_attacker, Q_defender, tr, error, events, primes,
                   env_stepped, call>>

\* lines 367-399: one pass of the while body up to the choice of the joint action
EvalSelect ==
    /\ pc = "e_select"
    /\ \E p \in SelectActions(env, ev.attacker_obs, ev.defender_obs, TRUE) :
         /\ lookups' = p.lookups
         /\ IF p.exc # "none"
            THEN RaiseError(p.exc) /\ UNCHANGED ev
            ELSE /\ ev' = [ev EXCEPT !.s_idx_a = p.s_idx_a, !.s_idx_d = p.s_idx_d,
                                     !.action = p.action]
                 /\ pc' = "e_step"
                 /\ UNCHANGED error
    /\ UNCHANGED <<config, env, Q_attacker, Q_defender, tr, events, primes,
                   env_stepped, call>>

\* lines 401-411: the step in the environment
EvalStep(E) ==
    /\ pc = "e_step"
    /\ \E o \in env_step(E, ev.action) :
         /\ env' = o.env
         /\ ev' = [ev EXCEPT !.attacker_obs = o.env.attacker_obs,
                             !.defender_obs = o.env.defender_obs,
                             !.s_idx_a = 0, !.s_idx_d = 0, !.action = <<0, 0>>]
         /\ pc' = IF o.done THEN "e_ep_end" ELSE "e_select"
    /\ env_stepped' = TRUE
    /\ lookups' = <<>>
    /\ UNCHANGED <<config, Q_attacker, Q_defender, tr, error, events, primes, call>>

\* lines 427-502: end of an eval episode, reset; after the last one, return
EvalEpisodeEnd(E) ==
    /\ pc = "e_ep_end"
    /\ \E e \in env_reset(E) :
         /\ env' = e
         /\ IF ev.episode + 1 < config.eval_episodes
            THEN /\ ev' = [ev EXCEPT !.episode = ev.episode + 1,
                                     !.attacker_obs = e.attacker_obs,
                                     !.defender_obs = e.defender_obs]
                 /\ pc' = "e_select"
            ELSE /\ ev' = EvalLocals
                 /\ pc' = ev.ret
    /\ lookups' = <<>>
    /\ UNCHANGED <<config, Q_attacker, Q_defender, tr, error, events, primes,
                   env_stepped, call>>

-----------------------------------------------------------------------------
(* Training and evaluation in the game RichEnv *)

TrainConfigs(epsilons, eval_epsilons) ==
    { ConfigOf(att, def, full, n, 1, 1, 1, ee, eps, eeps, Half, Half) :
        att \in BOOLEAN, def \in BOOLEAN, full \in BOOLEAN,
        n \in 0 .. MaxEpisodes, ee \in 1 .. MaxEvalEpisodes,
        eps \in epsilons, eeps \in eval_epsilons }

Next ==
    \/ TrainBegin(RichEnv)
    \/ TrainSelect
    \/ StepAndUpdate(RichEnv)
    \/ EpisodeEnd
    \/ Checkpoint(RichEnv)
    \/ FinalEval
    \/ FinalSave
    \/ EvalBegin(RichEnv)
    \/ EvalSelect
    \/ EvalStep(RichEnv)
    \/ EvalEpisodeEnd(RichEnv)

\* epsilon-greedy training and evaluation
Init == Construct(TrainConfigs(Epsilons, Epsilons), RichEnv, "train")

Spec == Init /\ [][Next]_vars

\* training and evaluation that never explore (epsilon = eval_epsilon = 0)
InitGreedy == Construct(TrainConfigs({Zero}, {Zero}), RichEnv, "train")

SpecGreedy == InitGreedy /\ [][Next]_vars

-----------------------------------------------------------------------------
(* The training harness in the game PlainEnv, over episode counts and      *)
(* frequencies                                                             *)

HarnessConfigs ==
    { ConfigOf(att, def, FALSE, n, lf, ef, cf, ee, Zero, Zero, Half, One) :
        att \in BOOLEAN, def \in BOOLEAN, n \in 0 .. MaxHarnessEpisodes,
        lf \in 1 .. MaxFreq, ef \in 1 .. MaxFreq, cf \in 1 .. MaxFreq,
        ee \in 0 .. MaxEvalEpisodes }

InitHarness == Construct(HarnessConfigs, PlainEnv, "train")

NextHarness ==
    \/ TrainBegin(PlainEnv)
    \/ TrainSelect
    \/ StepAndUpdate(PlainEnv)
    \/ EpisodeEnd
    \/ Checkpoint(PlainEnv)
    \/ FinalEval
    \/ FinalSave
    \/ EvalBegin(PlainEnv)
    \/ EvalSelect
    \/ EvalStep(PlainEnv)
    \/ EvalEpisodeEnd(PlainEnv)

SpecHarness == InitHarness /\ [][NextHarness]_vars

-----------------------------------------------------------------------------
(* Direct calls of get_action: any legal sets, any Q-values in row 0 of    *)
(* the role's table, any epsilon                                           *)

QValues == {Rat(-1), Zero, Half}
CallEpsilons == {Zero, Half, One}

InitGetAction ==
    /\ config \in { ConfigOf(TRUE, TRUE, FALSE, 0, 1, 1, 1, 0, eps, eeps, Half, Half) :
                      eps \in CallEpsilons, eeps \in CallEpsilons }
    /\ \E attacker \in BOOLEAN :
         /\ call = [fn |-> "pending", attacker |-> attacker]
         /\ \E legal \in SUBSET (IF attacker THEN AttackActions ELSE DefenseActions) :
              env = [fully_observed |-> FALSE, attacker_obs |-> <<0>>, defender_obs |-> <<0>>,
                     legal_attack |-> IF attacker THEN legal ELSE AttackActions,
                     legal_defense |-> IF attacker THEN DefenseActions ELSE legal,
                     t |-> 0]
         /\ \E row \in [(IF attacker THEN AttackActions ELSE DefenseActions) -> QValues] :
              /\ Q_attacker = IF attacker
                              THEN [ZeroTable(AttackerStates, AttackActions) EXCEPT ![0] = row]
                              ELSE ZeroTable(AttackerStates, AttackActions)
              /\ Q_defender = IF attacker
                              THEN ZeroTable(DefenderStates, DefenseActions)
                              ELSE [ZeroTable(DefenderStates, DefenseActions) EXCEPT ![0] = row]
    /\ pc = "get_action"
    /\ tr = TrainLocals
    /\ ev = EvalLocals
    /\ error = "none"
    /\ events = <<>>
    /\ lookups = <<>>
    /\ primes = NoPrimes
    /\ env_stepped = FALSE

\* one call get_action(s, eval, attacker) and its outcome
GetActionCall ==
    /\ pc = "get_action"
    /\ \E s \in (IF call.attacker THEN AttackerStates ELSE DefenderStates), eval \in BOOLEAN :
         \E o \in get_action(env, s, eval, call.attacker) :
           call' = [fn |-> "get_action", attacker |-> call.attacker, s |-> s,
                    eval |-> eval, out |-> o]
    /\ pc' = "returned"
    /\ UNCHANGED <<config, env, Q_attacker, Q_defender, tr, ev, error, events,
                   lookups, primes, env_stepped>>

SpecGetAction == InitGetAction /\ [][GetActionCall]_vars

-----------------------------------------------------------------------------
(* Direct calls of sarsa_update: two calls in a row on tables that start   *)
(* at zero, any arguments                                                  *)

CallRewards == {Rat(-1), Rat(1)}

InitSarsa ==
    /\ config \in { ConfigOf(TRUE, TRUE, FALSE, 0, 1, 1, 1, 0, Zero, Zero, Half, gamma) :
                      gamma \in {Half, One} }
    /\ env = [fully_observed |-> FALSE, attacker_obs |-> <<0>>, defender_obs |-> <<0>>,
              legal_attack |-> AttackActions, legal_defense |-> DefenseActions, t |-> 0]
    /\ Q_attacker = ZeroTable(AttackerStates, AttackActions)
    /\ Q_defender = ZeroTable(DefenderStates, DefenseActions)
    /\ pc = "sarsa_update"
    /\ tr = TrainLocals
    /\ ev = EvalLocals
    /\ error = "none"
    /\ events = <<>>
    /\ lookups = <<>>
    /\ primes = NoPrimes
    /\ env_stepped = FALSE
    /\ call = NoCall

\* one call sarsa_update(s, a, r, s_prime, a_prime, attacker); the history
\* keeps the arguments and both tables as they were before the call
SarsaCall ==
    /\ pc \in {"sarsa_update", "sarsa_update_again"}
    /\ \E attacker \in BOOLEAN, r \in CallRewards :
         LET states == IF attacker THEN AttackerStates ELSE DefenderStates
             actions == IF attacker THEN AttackActions ELSE DefenseActions
         IN  \E s \in states, s_prime \in states, a \in actions, a_prime \in actions :
               LET after == sarsa_update(Q_attacker, Q_defender, s, a, r,
                                         s_prime, a_prime, attacker)
               IN  /\ Q_attacker' = after[1]
                   /\ Q_defender' = after[2]
                   /\ call' = [fn |-> "sarsa_update", attacker |-> attacker,
                               s |-> s, a |-> a, r |-> r,
                               s_prime |-> s_prime, a_prime |-> a_prime,
                               Q_attacker |-> Q_attacker, Q_defender |-> Q_defender]
    /\ pc' = IF pc = "sarsa_update" THEN "sarsa_update_again" ELSE "returned"
    /\ UNCHANGED <<config, env, tr, ev, error, events, lookups, primes, env_stepped>>

SpecSarsa == InitSarsa /\ [][SarsaCall]_vars

-----------------------------------------------------------------------------
(* Properties *)

AssertGreedy == "AssertionError: Error when selecting action greedily according to the Q-function"
AssertRole == "AssertionError: Must specify whether training an attacker agent or defender agent"

NoRoleIn(c) == ~c.attacker /\ ~c.defender

\* what the last direct call was about
CallLegal == IF call.attacker THEN {a \in AttackActions : a \in env.legal_attack}
             ELSE {a \in DefenseActions : a \in env.legal_defense}
CallRow == IF call.attacker THEN Q_attacker[call.s] ELSE Q_defender[call.s]

\* C1: whenever get_action returns a value (attacker or defender, training or
\* eval mode, exploration or greedy branch), the value is an action that is
\* legal for that role in the current environment state.
C1_ReturnedActionIsLegal ==
    (call.fn = "get_action" /\ call.out.kind = "return") => call.out.value \in CallLegal

\* a defender call in eval mode returned through the exploration branch while
\* some defense was illegal
C1_Witness ==
    /\ call.fn = "get_action"
    /\ call.out.kind = "return"
    /\ call.out.branch = "explore"
    /\ call.eval
    /\ ~call.attacker
    /\ CallLegal # DefenseActions

\* C2: sarsa_update sets Q_role[s][a] to
\* Q_role[s][a] + alpha * (r + gamma * Q_role[s'][a'] - Q_role[s][a]), every
\* Q-value on the right being the one held before the call.  The equation is
\* stated over the integers, both sides multiplied by the denominators.
C2_SarsaUpdateRule ==
    call.fn = "sarsa_update" =>
        LET before == IF call.attacker THEN call.Q_attacker ELSE call.Q_defender
            after == IF call.attacker THEN Q_attacker ELSE Q_defender
            old == before[call.s][call.a]
            nxt == before[call.s_prime][call.a_prime]
            new == after[call.s][call.a]
            al == config.alpha
            ga == config.gamma
            r == call.r
        IN  /\ new[2] > 0
            /\ new[1] * (old[2] * al[2] * ga[2] * nxt[2] * r[2])
                 = new[2] * ( old[1] * al[2] * ga[2] * nxt[2] * r[2]
                              + al[1] * ( r[1] * old[2] * ga[2] * nxt[2]
                                          + ga[1] * nxt[1] * old[2] * r[2]
                                          - old[1] * ga[2] * nxt[2] * r[2] ) )

\* an update with (s', a') = (s, a) of an entry that was not zero
C2_Witness ==
    /\ call.fn = "sarsa_update"
    /\ call.s_prime = call.s
    /\ call.a_prime = call.a
    /\ (IF call.attacker THEN call.Q_attacker ELSE call.Q_defender)[call.s][call.a] # Zero

\* C3: in train, the next action used in the SARSA update of a non-terminal
\* transition is the action the role submits to env.step at the next step.
C3_OnPolicy ==
    (pc = "t_step" /\ primes.valid) =>
        /\ config.attacker => tr.action[1] = primes.a_prime
        /\ config.defender => tr.action[2] = primes.d_prime

\* a is a legal action of maximal Q-value in row, the first among the ties
IsFirstMaximalLegal(row, legal, a) ==
    /\ a \in legal
    /\ \A b \in legal : ~RLt(row[a], row[b])
    /\ \A b \in legal : row[b] = row[a] => a <= b

\* C4: on the greedy branch with at least one legal action, get_action returns
\* a legal action of maximal Q-value among the legal actions of row s, the
\* smallest index among the ties; the values of illegal actions play no part.
C4_GreedyIsFirstMaximalLegal ==
    (call.fn = "get_action" /\ call.out.branch = "greedy" /\ CallLegal # {}) =>
        /\ call.out.kind = "return"
        /\ IsFirstMaximalLegal(CallRow, CallLegal, call.out.value)

\* a greedy attacker call with a tie between two legal actions and an illegal
\* action of larger value
C4_Witness ==
    /\ call.fn = "get_action"
    /\ call.attacker
    /\ call.out.branch = "greedy"
    /\ call.out.kind = "return"
    /\ \E b \in CallLegal : b # call.out.value /\ CallRow[b] = CallRow[call.out.value]
    /\ \E c \in AttackActions \ CallLegal : RLt(CallRow[call.out.value], CallRow[c])

\* a is a legal action of maximal Q-value in row
IsMaximalLegal(row, legal, a) ==
    /\ a \in legal
    /\ \A b \in legal : ~RLt(row[a], row[b])

\* C5: every action eval passes to env.step for a configured role is a
\* maximal-Q legal action for the role's current state index.
C5_EvalIsGreedy ==
    pc = "e_step" =>
        /\ config.attacker =>
             IsMaximalLegal(Q_attacker[ev.s_idx_a],
                            {a \in AttackActions : a \in env.legal_attack}, ev.action[1])
        /\ config.defender =>
             IsMaximalLegal(Q_defender[ev.s_idx_d],
                            {a \in DefenseActions : a \in env.legal_defense}, ev.action[2])

\* the periodic actions of episode e, in order
EpisodeEvents(e) ==
    (IF e % config.train_log_frequency = 0 THEN <<Event("log", e, TRUE)>> ELSE <<>>)
    \o (IF e % config.eval_frequency = 0 THEN <<Event("eval", e, TRUE)>> ELSE <<>>)
    \o (IF e % config.checkpoint_freq = 0 THEN <<Event("checkpoint", e, TRUE)>> ELSE <<>>)

RECURSIVE EventsOfEpisodes(_)
EventsOfEpisodes(n) ==
    IF n = 0 THEN <<>> ELSE EventsOfEpisodes(n - 1) \o EpisodeEvents(n - 1)

EventsOfTrain ==
    EventsOfEpisodes(config.num_episodes)
    \o <<Event("eval", config.num_episodes, FALSE), Event("save", config.num_episodes, FALSE)>>

IsPrefix(a, b) == Len(a) <= Len(b) /\ SubSeq(b, 1, Len(a)) = a

\* C6: at the end of episode e the metric log, the evaluation and the
\* checkpoint happen exactly when e mod their frequency = 0, in this order;
\* after the last episode come one evaluation with log disabled and one
\* Q-table save.  What train has done so far is always a prefix of that
\* sequence: the part of the earlier episodes while an episode runs, and the
\* whole when train returns.
C6_PeriodicActions ==
    /\ IsPrefix(events, EventsOfTrain)
    /\ pc \in {"t_select", "t_step", "ep_end"} => events = EventsOfEpisodes(tr.episode)
    /\ pc = "done" => events = EventsOfTrain

\* train returned after three or more episodes, one of them without log and
\* checkpoint, every one with an evaluation that ran
C6_Witness ==
    /\ pc = "done"
    /\ config.num_episodes >= 3
    /\ config.train_log_frequency = 2
    /\ config.eval_frequency = 1
    /\ config.checkpoint_freq = 2
    /\ config.eval_episodes >= 1

\* C7 as stated: with neither role configured, for any num_episodes >= 0,
\* train raises the AssertionError before any env.step call, the Q-tables
\* unchanged.
C7_RaisesForAnyEpisodeCount ==
    NoRoleIn(config) =>
        /\ pc \in {"train", "t_select", "raised"}
        /\ pc = "raised" => error = AssertRole
        /\ ~env_stepped
        /\ Q_attacker = ZeroTable(AttackerStates, AttackActions)
        /\ Q_defender = ZeroTable(DefenderStates, DefenseActions)

\* C7, amended: with neither role configured and num_episodes >= 1, train
\* raises the AssertionError before any env.step call, the Q-tables unchanged.
C7_RaisesWhenEpisodes ==
    (NoRoleIn(config) /\ config.num_episodes >= 1) =>
        /\ pc \in {"train", "t_select", "raised"}
        /\ pc = "raised" => error = AssertRole
        /\ ~env_stepped
        /\ Q_attacker = ZeroTable(AttackerStates, AttackActions)
        /\ Q_defender = ZeroTable(DefenderStates, DefenseActions)

\* train has raised with neither role configured
C7_Witness ==
    /\ NoRoleIn(config)
    /\ config.num_episodes >= 1
    /\ pc = "raised"
    /\ error = AssertRole

\* C8 as stated: with no legal action for the role, get_action raises the
\* AssertionError of the greedy selection, on the exploration branch too.
C8_RaisesAssertionError ==
    (call.fn = "get_action" /\ CallLegal = {}) =>
        /\ call.out.kind = "raise"
        /\ call.out.exc = AssertGreedy

\* C8, amended: with no legal action for the role, get_action returns no
\* action: on the greedy branch it raises the AssertionError, on the
\* exploration branch np.random.choice raises ValueError; the Q-tables are
\* unchanged by the call.
C8_RaisesWithoutLegalAction ==
    /\ [] ((call.fn = "get_action" /\ CallLegal = {}) =>
              /\ call.out.kind = "raise"
              /\ call.out.branch = "greedy" => call.out.exc = AssertGreedy
              /\ call.out.branch = "explore" => call.out.exc = "ValueError")
    /\ [][call'.fn = "get_action" =>
            (Q_attacker' = Q_attacker /\ Q_defender' = Q_defender)]_vars

\* a call on the exploration branch with no legal action
C8_Witness ==
    /\ call.fn = "get_action"
    /\ CallLegal = {}
    /\ call.out.branch = "explore"
    /\ call.out.kind = "raise"

\* C9: a step of training changes at most Q_attacker[s_idx_a][attacker_action],
\* and only if the attacker is configured, and Q_defender[s_idx_d][defender_action],
\* and only if the defender is configured; no other step changes a table, so
\* the table of a role that is not configured stays all-zero.
C9_UpdateFrame ==
    /\ [][ /\ \A s \in DOMAIN Q_attacker : \A a \in AttackActions :
                Q_attacker'[s][a] # Q_attacker[s][a] =>
                    (pc = "t_step" /\ config.attacker /\ s = tr.s_idx_a /\ a = tr.action[1])
           /\ \A s \in DOMAIN Q_defender : \A a \in DefenseActions :
                Q_defender'[s][a] # Q_defender[s][a] =>
                    (pc = "t_step" /\ config.defender /\ s = tr.s_idx_d /\ a = tr.action[2])
           /\ DOMAIN Q_attacker' = DOMAIN Q_attacker
           /\ DOMAIN Q_defender' = DOMAIN Q_defender ]_vars
    /\ [] (~config.attacker => Q_attacker = ZeroTable(AttackerStates, AttackActions))
    /\ [] (~config.defender => Q_defender = ZeroTable(DefenderStates, DefenseActions))

\* with both roles configured, a step updated the attacker's table and then
\* failed in the defender's block, the defender's table untouched
C9_Witness ==
    /\ config.attacker
    /\ config.defender
    /\ pc = "raised"
    /\ env_stepped
    /\ Q_attacker # ZeroTable(AttackerStates, AttackActions)
    /\ Q_defender = ZeroTable(DefenderStates, DefenseActions)

\* C10: in full-state-space mode with a fully observed environment, the key
\* looked up in state_to_idx for either role is the concatenation of the raw
\* attacker observation and the raw defender observation, each element
\* clamped to max_value, whether or not the other role is configured.
C10_KeyIsConcatenation ==
    (config.tab_full_state_space /\ env.fully_observed) =>
        \A i \in DOMAIN lookups :
            LET both == lookups[i].attacker_obs \o lookups[i].defender_obs
            IN  /\ Len(lookups[i].key) = Len(both)
                /\ \A k \in DOMAIN both :
                     lookups[i].key[k] = IF both[k] > max_value THEN max_value ELSE both[k]

====
